---- MODULE Spec2Model ----
(***************************************************************************)
(* Model of crates/app/src/main.rs of mkts: the terminal dashboard's       *)
(* Application State (struct App, struct Stock), its operations, the       *)
(* event loop run_app and the terminal set-up / tear-down of main.         *)
(*                                                                         *)
(* Representation.                                                         *)
(*  - f64 money amounts are fixed-point integers in units of 0.0001        *)
(*    (1.0 = 10000); a product with a decimal fraction is the exact        *)
(*    product rounded down to the unit.  change_pct is in hundredths of a  *)
(*    percent.  prev_close, a product by 0.995, is kept exactly: its part   *)
(*    below the unit is prev_close_frac, in 1/1000 of a unit.  Where the   *)
(*    outcome of an f64 computation on such values     *)
(*    depends on the rounding of the f64 operations, the model gives the   *)
(*    set of outcomes.                                                     *)
(*  - a String is a TLA+ string, a char its one-character substring.       *)
(*  - usize is 0..USIZE_MAX with a narrowed width; a plain `+` that        *)
(*    overflows panics in a build with overflow checks and wraps in a      *)
(*    build without them.                                                  *)
(*  - Instants are kept as the time elapsed since they were taken, in      *)
(*    units of 10 ms; the elapsed times grow while draw and poll run.      *)
(*  - the random generator is a nondeterministic choice of the drawn       *)
(*    values from small sets inside the generator's range.                 *)
(***************************************************************************)
EXTENDS Integers, Sequences, FiniteSets, TLC

VARIABLES
    app,                \* the struct App owned by run_app
    pc,                 \* position in main / run_app
    term,               \* the terminal session host, as main leaves it
    result,             \* the io::Result of run_app / main
    last_tick,          \* time elapsed since last_tick was taken
    last_price_update,  \* time elapsed since last_price_update was taken
    last_banner_tick,   \* time elapsed since last_banner_tick was taken
    waited,             \* how long the latest event::poll blocked
    op,                 \* the App operation performed by the latest step
    updates,            \* number of update_prices calls so far
    pushed              \* per instrument: every price pushed to its history

vars == <<app, pc, term, result, last_tick, last_price_update,
          last_banner_tick, waited, op, updates, pushed>>

(***************************************************************************)
(* Program constants                                                       *)
(***************************************************************************)
\* const TICK_RATE = 250 ms
TICK_RATE == 25
\* const PRICE_UPDATE_RATE = 900 ms
PRICE_UPDATE_RATE == 90
\* const BANNER_TICK_RATE = 120 ms
BANNER_TICK_RATE == 12
\* 1.0 in units of 0.0001
PRICE_UNIT == 10000
\* the price floor 1.0 of update_prices
PRICE_FLOOR == 10000
\* the near-zero span 0.0001 of normalize_history
EPSILON == 1
\* the initial volume 2_500_000.0 of Stock::seed
SEED_VOLUME == 2500000

(***************************************************************************)
(* Bounds of the model                                                     *)
(***************************************************************************)
\* const HISTORY_LEN (64 in the source), scaled down
HISTORY_LEN == 2
\* usize::MAX, scaled down
USIZE_MAX == 15
\* longest watchlist the selection operations are called on
MaxCount == 8

\* update_prices calls explored in one run of the program: the second one
\* has a previous invocation
MaxLoopUpdates == 2

\* update_prices calls explored in one run: enough to overflow the history
MaxUpdates == HISTORY_LEN + 1

(***************************************************************************)
(* Integer helpers (std)                                                   *)
(***************************************************************************)
min(a, b) == IF a <= b THEN a ELSE b

max(a, b) == IF a >= b THEN a ELSE b

saturating_sub(a, b) == IF a >= b THEN a - b ELSE 0

\* mutant of saturating_add: the addition wraps around
wrapping_add(a, b) == (a + b) % (USIZE_MAX + 1)

saturating_add(a, b) == IF a + b >= USIZE_MAX THEN USIZE_MAX ELSE a + b

\* the build profiles: overflow checks on (debug) or off (release)
Builds == {"debug", "release"}

\* usize `a + b` leaves the range of usize
usize_add_overflows(a, b) == a + b > USIZE_MAX

\* usize `a + b` where it does not panic: the sum, wrapped on overflow
usize_add(a, b) == (a + b) % (USIZE_MAX + 1)

\* f64 `x * (num / den)` for x >= 0, rounded down to the unit; the product
\* is split so that no intermediate value leaves the integers of the checker
MulDiv(x, num, den) == ((x \div den) * num) + (((x % den) * num) \div den)

RECURSIVE Concat(_)
\* Iterator::collect::<String>() of a sequence of strings
Concat(ss) == IF ss = <<>> THEN "" ELSE Head(ss) \o Concat(Tail(ss))

(***************************************************************************)
(* struct Stock                                                            *)
(***************************************************************************)
\* One step of the seeding walk: val *= 1.0 + noise, noise in 1/10000.
\* The walk w keeps `val` in units, `hi` in 1/10000 of a unit and `lo` in
\* 1/10000 of that, which holds the first two steps from a price exactly;
\* a later step drops less than 1/100000000 of a unit.
SeedStep(w, noise) ==
    LET m     == 10000 + noise
        moved == w.val * noise
        a     == w.hi * m
        b     == w.lo * m
        low   == (a % 10000) + (b \div 10000)
        high  == (moved % 10000) + (a \div 10000) + (low \div 10000)
    IN  [ val |-> w.val + (moved \div 10000) + (high \div 10000),
          hi  |-> high % 10000,
          lo  |-> low % 10000 ]

RECURSIVE SeedHistory(_, _)
\* the for loop of Stock::seed: one push per drawn noise value
SeedHistory(w, noises) ==
    IF noises = <<>> THEN <<>>
    ELSE LET v == SeedStep(w, Head(noises))
         IN  <<v.val>> \o SeedHistory(v, Tail(noises))

\* price - prev_close, rounded down to the unit
change_of(price, prev_close, frac) ==
    price - prev_close - (IF frac > 0 THEN 1 ELSE 0)

\* (change / prev_close) * 100.0 in hundredths of a percent, rounded down:
\* the greatest q with q * prev_close <= 10000 * change, both taken exactly
\* (in 1/1000 of a unit) and compared without leaving the integers of the
\* checker
percent_of(price, prev_close, frac) ==
    LET n10     == 10 * ((1000 * (price - prev_close)) - frac)
        q1      == n10 \div prev_close
        slack   == ((IF q1 < 0 THEN -q1 ELSE q1) \div prev_close) + 2
        fits(q) == LET t == q * frac
                   IN  (q * prev_close) + (t \div 1000)
                           + (IF t % 1000 > 0 THEN 1 ELSE 0) <= n10
    IN  CHOOSE q \in (q1 - slack)..(q1 + slack) : fits(q) /\ ~fits(q + 1)

seed(symbol, name, price, noises) ==
    LET prev_close == MulDiv(price, 995, 1000)
        frac       == ((price % 1000) * 995) % 1000
        open       == MulDiv(price, 99, 100)
    IN  [ symbol          |-> symbol,
          name            |-> name,
          price           |-> price,
          prev_close      |-> prev_close,
          prev_close_frac |-> frac,
          change          |-> change_of(price, prev_close, frac),
          change_pct      |-> percent_of(price, prev_close, frac),
          volume          |-> SEED_VOLUME,
          vwap            |-> (price + open) \div 2,
          open            |-> open,
          day_range_low   |-> MulDiv(price, 98, 100),
          day_range_high  |-> MulDiv(price, 102, 100),
          history         |-> SeedHistory([val |-> price, hi |-> 0, lo |-> 0], noises) ]

(***************************************************************************)
(* struct App                                                              *)
(***************************************************************************)
\* the watchlist of App::new: symbol, name and seed price of each Stock
SEEDS ==
    << [symbol |-> "AAPL", name |-> "Apple Inc.",     price |-> 1824200],
       [symbol |-> "MSFT", name |-> "Microsoft",      price |-> 4131800],
       [symbol |-> "NVDA", name |-> "NVIDIA",         price |-> 7384400],
       [symbol |-> "TSLA", name |-> "Tesla",          price |-> 1960800],
       [symbol |-> "AMZN", name |-> "Amazon",         price |-> 1715200],
       [symbol |-> "META", name |-> "Meta Platforms", price |-> 4853600],
       [symbol |-> "JPM",  name |-> "JPMorgan",       price |-> 1782200],
       [symbol |-> "XOM",  name |-> "Exxon Mobil",    price |-> 1042600] >>

HEADLINES ==
    << "RATES: CPI cools, traders price first cut in Q3",
       "EARNINGS: Cloud spend accelerates across mega-cap",
       "ENERGY: OPEC+ signals steady supply through summer",
       "FX: USD softer as risk appetite improves" >>

BANNER ==
    << "MARKET: Futures edge higher ahead of Fed minutes",
       "TECH: Semis lead gains as AI capex expands",
       "MACRO: Treasury yields slip, curve steepens" >>

EXPLORER_ITEMS == <<"Stocks", "Bonds", "Crypto", "Commodities", "FX", "News">>

\* App { .. } as App::new builds it, for a given watchlist and banner source
MakeApp(stocks, banner) ==
    [ stocks            |-> stocks,
      selected          |-> 0,
      headlines         |-> HEADLINES,
      banner            |-> banner,
      banner_offset     |-> 0,
      user              |-> "guest",
      api_key           |-> "",
      explorer_items    |-> EXPLORER_ITEMS,
      explorer_selected |-> 0,
      session           |-> "OPEN" ]

\* the vec! of Stock::seed calls of App::new, for the seeds sds; noises[i]
\* are the values rand::random draws while seeding instrument i
SeedAll(sds, noises) ==
    [i \in 1..Len(sds) |-> seed(sds[i].symbol, sds[i].name, sds[i].price, noises[i])]

\* App::new with the watchlist cut to its first n instruments
new(n, noises) == MakeApp(SeedAll(SubSeq(SEEDS, 1, n), noises), BANNER)

\* select_next panics: `self.selected + 1` overflows and the build checks it
select_next_panics(a, build) ==
    build = "debug" /\ usize_add_overflows(a.selected, 1)

\* mutant of select_next: no clamp at the last instrument
select_next_unclamped(a) == [a EXCEPT !.selected = a.selected + 1]

\* select_next where it does not panic
select_next(a) ==
    [a EXCEPT !.selected =
        min(usize_add(a.selected, 1), saturating_sub(Len(a.stocks), 1))]

\* mutant of select_prev: the selection wraps from the first to the last
select_prev_wrapping(a) ==
    IF a.selected > 0 THEN [a EXCEPT !.selected = a.selected - 1]
    ELSE [a EXCEPT !.selected = saturating_sub(Len(a.stocks), 1)]

select_prev(a) ==
    IF a.selected > 0 THEN [a EXCEPT !.selected = a.selected - 1] ELSE a

\* mutant of reset_selection: the banner is rewound as well
reset_selection_and_banner(a) == [a EXCEPT !.selected = 0, !.banner_offset = 0]

reset_selection(a) == [a EXCEPT !.selected = 0]

\* format!("{}   ", s)
Padded(s) == s \o "   "

\* self.banner.iter().map(|s| format!("{}   ", s)).collect::<String>()
Joined(banner) == Concat([i \in 1..Len(banner) |-> Padded(banner[i])])

\* the char at 0-based position i of string s
CharAt(s, i) == SubSeq(s, i + 1, i + 1)

RECURSIVE CycleSkipTake(_, _, _)
\* s.chars().cycle().skip(k).take(n).collect::<String>()
CycleSkipTake(s, k, n) ==
    IF n = 0 THEN ""
    ELSE CharAt(s, k % Len(s)) \o CycleSkipTake(s, k + 1, n - 1)

\* mutant of banner_text: the window stops at the end of the text
banner_text_truncated(a) ==
    LET joined == Joined(a.banner)
    IN  IF joined = "" THEN "NO HEADLINES"
        ELSE LET len    == Len(joined)
                 offset == a.banner_offset % len
             IN  SubSeq(joined, offset + 1, len) \o " "

\* mutant of banner_text: the offset is reduced modulo the rotated length
banner_text_modlen1(a) ==
    LET joined == Joined(a.banner)
    IN  IF joined = "" THEN "NO HEADLINES"
        ELSE LET len    == Len(joined)
                 offset == a.banner_offset % (len + 1)
             IN  CycleSkipTake(joined, offset, len) \o " "

\* mutant of banner_text: the text scrolls to the right
banner_text_right(a) ==
    LET joined == Joined(a.banner)
    IN  IF joined = "" THEN "NO HEADLINES"
        ELSE LET len    == Len(joined)
                 offset == a.banner_offset % len
             IN  CycleSkipTake(joined, len - offset, len) \o " "

banner_text(a) ==
    LET joined == Joined(a.banner)
    IN  IF joined = "" THEN "NO HEADLINES"
        ELSE LET len     == Len(joined)
                 offset  == a.banner_offset % len
                 rotated == CycleSkipTake(joined, offset, len)
             IN  rotated \o " "

advance_banner(a) ==
    IF a.banner # <<>>
    THEN [a EXCEPT !.banner_offset = saturating_add(a.banner_offset, 1)]
    ELSE a

\* mutant of advance: the price is not held at the floor
advance_unfloored(stock, delta, vol) ==
    LET price   == stock.price + delta
        pushedH == Append(stock.history, price)
        history == IF Len(pushedH) > HISTORY_LEN THEN Tail(pushedH) ELSE pushedH
        change  == change_of(price, stock.prev_close, stock.prev_close_frac)
        pct     == percent_of(price, stock.prev_close, stock.prev_close_frac)
    IN  [stock EXCEPT
            !.price          = price,
            !.history        = history,
            !.change         = change,
            !.change_pct     = pct,
            !.volume         = stock.volume + vol,
            !.vwap           = (stock.vwap + price) \div 2,
            !.day_range_low  = min(stock.day_range_low, price),
            !.day_range_high = max(stock.day_range_high, price)]

\* mutant of advance: a full history drops its newest entry, not its oldest
advance_evict_newest(stock, delta, vol) ==
    LET price   == max(stock.price + delta, PRICE_FLOOR)
        pushedH == Append(stock.history, price)
        history == IF Len(pushedH) > HISTORY_LEN
                   THEN SubSeq(pushedH, 1, Len(pushedH) - 1) ELSE pushedH
        change  == change_of(price, stock.prev_close, stock.prev_close_frac)
        pct     == percent_of(price, stock.prev_close, stock.prev_close_frac)
    IN  [stock EXCEPT
            !.price          = price,
            !.history        = history,
            !.change         = change,
            !.change_pct     = pct,
            !.volume         = stock.volume + vol,
            !.vwap           = (stock.vwap + price) \div 2,
            !.day_range_low  = min(stock.day_range_low, price),
            !.day_range_high = max(stock.day_range_high, price)]

\* mutant of advance: change is taken from the price before the step
advance_stale_change(stock, delta, vol) ==
    LET price   == max(stock.price + delta, PRICE_FLOOR)
        pushedH == Append(stock.history, price)
        history == IF Len(pushedH) > HISTORY_LEN THEN Tail(pushedH) ELSE pushedH
        change  == change_of(stock.price, stock.prev_close, stock.prev_close_frac)
        pct     == percent_of(stock.price, stock.prev_close, stock.prev_close_frac)
    IN  [stock EXCEPT
            !.price          = price,
            !.history        = history,
            !.change         = change,
            !.change_pct     = pct,
            !.volume         = stock.volume + vol,
            !.vwap           = (stock.vwap + price) \div 2,
            !.day_range_low  = min(stock.day_range_low, price),
            !.day_range_high = max(stock.day_range_high, price)]

\* mutant of advance: the history gets the price before it is held at the floor
advance_push_unfloored(stock, delta, vol) ==
    LET price   == max(stock.price + delta, PRICE_FLOOR)
        pushedH == Append(stock.history, stock.price + delta)
        history == IF Len(pushedH) > HISTORY_LEN THEN Tail(pushedH) ELSE pushedH
        change  == change_of(price, stock.prev_close, stock.prev_close_frac)
        pct     == percent_of(price, stock.prev_close, stock.prev_close_frac)
    IN  [stock EXCEPT
            !.price          = price,
            !.history        = history,
            !.change         = change,
            !.change_pct     = pct,
            !.volume         = stock.volume + vol,
            !.vwap           = (stock.vwap + price) \div 2,
            !.day_range_low  = min(stock.day_range_low, price),
            !.day_range_high = max(stock.day_range_high, price)]

\* the body of the for loop of update_prices for one Stock: delta and
\* vol are the two values drawn from self.rng
advance(stock, delta, vol) ==
    LET price   == max(stock.price + delta, PRICE_FLOOR)
        pushedH == Append(stock.history, price)
        history == IF Len(pushedH) > HISTORY_LEN THEN Tail(pushedH) ELSE pushedH
        change  == change_of(price, stock.prev_close, stock.prev_close_frac)
        pct     == percent_of(price, stock.prev_close, stock.prev_close_frac)
    IN  [stock EXCEPT
            !.price          = price,
            !.history        = history,
            !.change         = change,
            !.change_pct     = pct,
            !.volume         = stock.volume + vol,
            !.vwap           = (stock.vwap + price) \div 2,
            !.day_range_low  = min(stock.day_range_low, price),
            !.day_range_high = max(stock.day_range_high, price)]

\* mutant of update_prices: the loop stops before the last instrument
update_prices_skip_last(a, deltas, vols) ==
    [a EXCEPT !.stocks =
        [i \in 1..Len(a.stocks) |->
            IF i < Len(a.stocks) THEN advance(a.stocks[i], deltas[i], vols[i])
            ELSE a.stocks[i]]]

\* deltas[i], vols[i]: the values drawn for instrument i
update_prices(a, deltas, vols) ==
    [a EXCEPT !.stocks =
        [i \in 1..Len(a.stocks) |-> advance(a.stocks[i], deltas[i], vols[i])]]

(***************************************************************************)
(* Render pipeline: the computations of render_quote and render_chart      *)
(***************************************************************************)
\* the ratio 1.0 of the gauge, in hundredths
RATIO_ONE == 100

\* f64::clamp
clamp(x, lo, hi) == IF x < lo THEN lo ELSE IF x > hi THEN hi ELSE x

\* mutant of gauge_ratio: the ratio is handed to the gauge as computed
gauge_ratio_unclamped(stock) ==
    IF stock.day_range_high - stock.day_range_low <= 0
    THEN 0
    ELSE ((stock.price - stock.day_range_low) * RATIO_ONE)
             \div (stock.day_range_high - stock.day_range_low)

\* render_quote: the value given to Gauge::ratio, in hundredths
gauge_ratio(stock) ==
    LET gauge_ratio_raw ==
            IF stock.day_range_high - stock.day_range_low <= 0
            THEN 0
            ELSE ((stock.price - stock.day_range_low) * RATIO_ONE)
                     \div (stock.day_range_high - stock.day_range_low)
    IN  clamp(gauge_ratio_raw, 0, RATIO_ONE)

RECURSIVE FoldMin(_, _)
\* history.iter().cloned().fold(acc, f64::min)
FoldMin(acc, h) == IF h = <<>> THEN acc ELSE FoldMin(min(acc, Head(h)), Tail(h))

RECURSIVE FoldMax(_, _)
\* history.iter().cloned().fold(acc, f64::max)
FoldMax(acc, h) == IF h = <<>> THEN acc ELSE FoldMax(max(acc, Head(h)), Tail(h))

\* max_val - min_val <= 0.0001 decides the span.  A difference below
\* 0.0001 is replaced by 1.0 and one above it is kept; the f64 difference of
\* two values 0.0001 apart lies on either side of the f64 0.0001 (it is
\* below for 1.0001 - 1.0 and above for 0.5001 - 0.5), so both are outcomes.
span_outcomes(min_val, max_val) ==
    LET d == max_val - min_val
    IN  IF d < EPSILON THEN {PRICE_UNIT}
        ELSE IF d = EPSILON THEN {PRICE_UNIT, d}
        ELSE {d}

\* (((v - min_val) / span) * 100.0) as u64: the quotient rounded towards
\* zero.  The least value gives 0 and the greatest gives 100 exactly; for a
\* value between them whose exact quotient is a whole number q the f64
\* result is q or just below it (1.13 in [1.0, 1.2] gives 64.99.., cast to
\* 64), so both q and q - 1 are outcomes.
cast_outcomes(v, min_val, span) ==
    LET a == v - min_val
        q == (a * 100) \div span
    IN  IF a > 0 /\ a < span /\ (a * 100) % span = 0 THEN {q - 1, q} ELSE {q}

RECURSIVE Product(_)
\* the sequences that take their k-th element from the k-th set
Product(sets) ==
    IF sets = <<>> THEN {<<>>}
    ELSE {<<x>> \o rest : x \in Head(sets), rest \in Product(Tail(sets))}

\* history.iter().map(..).collect() for one outcome of the span: every
\* value gets one outcome of its cast plus `base`, equal values the same
map_outcomes(history, min_val, span, base) ==
    LET casts == [k \in 1..Len(history) |->
                     {c + base : c \in cast_outcomes(history[k], min_val, span)}]
    IN  {n \in Product(casts) :
            \A j, k \in 1..Len(history) : history[j] = history[k] => n[j] = n[k]}

\* mutant of normalize_history: the samples start at 0
normalize_history_from_zero(history) ==
    IF history = <<>> THEN {<<0>>}
    ELSE LET min_val == FoldMin(Head(history), history)
             max_val == FoldMax(Head(history), history)
         IN  UNION {map_outcomes(history, min_val, span, 0) :
                       span \in span_outcomes(min_val, max_val)}

\* normalize_history: the set of Vec<u64> it can return for the history.
\* The folds start at the first value, which gives the result of starting
\* at +/- infinity on a non-empty history.
normalize_history(history) ==
    IF history = <<>> THEN {<<0>>}
    ELSE LET min_val == FoldMin(Head(history), history)
             max_val == FoldMax(Head(history), history)
         IN  UNION {map_outcomes(history, min_val, span, 1) :
                       span \in span_outcomes(min_val, max_val)}

(***************************************************************************)
(* Drawn values                                                            *)
(***************************************************************************)
\* (rand::random::<f64>() - 0.5) * 0.003 lies in [-0.0015, 0.0015)
Noise == {-14, 14}

NoiseSeqs == [1..HISTORY_LEN -> Noise]

\* gen_range(-0.8..0.9): -0.8 is the least value, 0.89 lies below the end
Deltas == {-8000, 8900}

\* gen_range(20_000.0..180_000.0)
VolumeIncs == {20000}

\* The draws of one pass over a watchlist of n instruments, for the program's
\* watchlist: every instrument draws the same value.
Vectors(n, S) == { [i \in 1..n |-> x] : x \in S }

NoiseVectors(n) == { [i \in 1..n |-> [k \in 1..HISTORY_LEN |-> x]] : x \in Noise }

\* the terminal before main touches it
TermInit ==
    [ raw |-> FALSE, alt |-> FALSE,
      disable_attempted |-> FALSE, leave_attempted |-> FALSE ]

\* the variables a specification of App's operations alone does not use
Idle ==
    /\ pc = "unit"
    /\ term = TermInit
    /\ result = "none"
    /\ last_tick = 0
    /\ last_price_update = 0
    /\ last_banner_tick = 0
    /\ waited = 0

IdleUnchanged ==
    UNCHANGED <<pc, term, result, last_tick, last_price_update,
                last_banner_tick, waited>>

Histories(a) == [i \in 1..Len(a.stocks) |-> a.stocks[i].history]

\* a panic unwinds out of main: nothing after the panicking call is run
Panic ==
    /\ pc' = "panicked"
    /\ result' = "panic"

(***************************************************************************)
(* SpecSel: the selection operations called in any order on a watchlist    *)
(* of any length up to MaxCount, from any index of the watchlist.          *)
(***************************************************************************)
ZeroNoise == [i \in 1..HISTORY_LEN |-> 0]

InitSel ==
    /\ \E count \in 0..MaxCount :
       \E start \in 0..saturating_sub(count, 1) :
          app = [ MakeApp(SeedAll(SubSeq(SEEDS, 1, min(count, Len(SEEDS))) \o
                                  [i \in 1..saturating_sub(count, Len(SEEDS)) |-> SEEDS[1]],
                                  [i \in 1..count |-> ZeroNoise]),
                          BANNER)
                  EXCEPT !.selected = start ]
    /\ Idle
    /\ op = "new"
    /\ updates = 0
    /\ pushed = Histories(app)

\* select_next called under either build profile
SelectNext ==
    /\ pc = "unit"
    /\ op' = "select_next"
    /\ \E build \in Builds :
          IF select_next_panics(app, build)
          THEN Panic /\ UNCHANGED app
          ELSE app' = select_next(app) /\ UNCHANGED <<pc, result>>
    /\ UNCHANGED <<term, last_tick, last_price_update, last_banner_tick, waited>>
    /\ UNCHANGED <<updates, pushed>>

SelectPrev ==
    /\ pc = "unit"
    /\ app' = select_prev(app)
    /\ op' = "select_prev"
    /\ IdleUnchanged
    /\ UNCHANGED <<updates, pushed>>

ResetSelection ==
    /\ pc = "unit"
    /\ app' = reset_selection(app)
    /\ op' = "reset_selection"
    /\ IdleUnchanged
    /\ UNCHANGED <<updates, pushed>>

NextSel == SelectNext \/ SelectPrev \/ ResetSelection

SpecSel == InitSel /\ [][NextSel]_vars

(***************************************************************************)
(* SpecBanner: advance_banner called repeatedly on a banner source drawn   *)
(* from BannerSources.                                                     *)
(***************************************************************************)
BannerSources ==
    { <<>>, <<"">>, <<"A", "B">>, <<"AB">>, <<"MKT", "", "FX">>,
      <<"abc", "de">>, <<"x", "y", "z">>, <<"Q">>, <<"NEWS">> }

InitBanner ==
    /\ \E b \in BannerSources :
          app = MakeApp(SeedAll(SubSeq(SEEDS, 1, 1), <<ZeroNoise>>), b)
    /\ Idle
    /\ op = "new"
    /\ updates = 0
    /\ pushed = Histories(app)

AdvanceBanner ==
    /\ pc = "unit"
    /\ app' = advance_banner(app)
    /\ op' = "advance_banner"
    /\ IdleUnchanged
    /\ UNCHANGED <<updates, pushed>>

NextBanner == AdvanceBanner

SpecBanner == InitBanner /\ [][NextBanner]_vars

(***************************************************************************)
(* SpecSim: update_prices called repeatedly on a seeded watchlist.  The    *)
(* seed prices are near the price floor and at the 100.0 of the example.   *)
(***************************************************************************)
SimSeeds ==
    << [symbol |-> "LOW", name |-> "Near floor", price |-> 20000],
       [symbol |-> "HUN", name |-> "Hundred",    price |-> 1000000] >>

InitSim ==
    /\ \E noises \in [1..Len(SimSeeds) -> NoiseSeqs] :
          app = MakeApp(SeedAll(SimSeeds, noises), BANNER)
    /\ Idle
    /\ op = "new"
    /\ updates = 0
    /\ pushed = Histories(app)

UpdatePrices ==
    /\ pc = "unit"
    /\ updates < MaxUpdates
    /\ \E deltas \in [1..Len(app.stocks) -> Deltas] :
       \E vols \in [1..Len(app.stocks) -> VolumeIncs] :
          app' = update_prices(app, deltas, vols)
    /\ op' = "update_prices"
    /\ updates' = updates + 1
    /\ pushed' = [i \in 1..Len(pushed) |-> Append(pushed[i], app'.stocks[i].price)]
    /\ IdleUnchanged

NextSim == UpdatePrices

SpecSim == InitSim /\ [][NextSim]_vars

(***************************************************************************)
(* SpecRender: the computations of the render pipeline on an instrument    *)
(* whose price, day range and history are drawn from RenderPrices, so     *)
(* that an empty history, a history of equal values, one of values 0.0001 *)
(* apart and a day range of zero width occur; update_prices is then       *)
(* called on it.                                                           *)
(***************************************************************************)
\* 1.0, 1.0001, 1.5 and 2.0
RenderPrices == {10000, 10001, 15000, 20000}

RenderHistories == UNION { [1..n -> RenderPrices] : n \in 0..HISTORY_LEN }

InitRender ==
    /\ \E price \in RenderPrices, low \in RenderPrices, high \in RenderPrices :
       \E hist \in RenderHistories :
          app = MakeApp(<< [ seed("DRAWN", "Drawn", price, <<>>) EXCEPT
                               !.day_range_low = low,
                               !.day_range_high = high,
                               !.history = hist ] >>,
                        BANNER)
    /\ Idle
    /\ op = "new"
    /\ updates = 0
    /\ pushed = Histories(app)

NextRender == UpdatePrices

SpecRender == InitRender /\ [][NextRender]_vars

(***************************************************************************)
(* Spec: the program.  main sets the terminal up, run_app loops over       *)
(* draw, poll, read and the three timer checks, main tears the terminal    *)
(* down.  Every I/O call may fail.  Time passes while event::poll blocks   *)
(* and while the rest of an iteration runs, which is counted in its draw.  *)
(***************************************************************************)
\* the events event::read may return: a key code with its kind, or an
\* event that is no key event
KeyCodes == {"q", "j", "Down", "k", "Up", "r", "x", "Enter"}

KeyKinds == {"Press", "Repeat", "Release"}

Events ==
    [type : {"Key"}, code : KeyCodes, kind : KeyKinds]
        \cup {[type |-> "Resize", code |-> "", kind |-> ""]}

\* the event as the latest step's `op`
EventLabel(ev) ==
    IF ev.type = "Key" THEN "Key(" \o ev.code \o "," \o ev.kind \o ")" ELSE ev.type

\* handle_key panics: the key calls select_next and select_next panics
handle_key_panics(a, code, build) ==
    code \in {"j", "Down"} /\ select_next_panics(a, build)

\* mutant of handle_key: 'q' is taken for a navigation key
handle_key_q_resets(a, code) ==
    CASE code \in {"j", "Down"} -> [app |-> select_next(a), quit |-> FALSE]
      [] code \in {"k", "Up"}   -> [app |-> select_prev(a), quit |-> FALSE]
      [] code \in {"r", "q"}    -> [app |-> reset_selection(a), quit |-> FALSE]
      [] OTHER                  -> [app |-> a, quit |-> FALSE]

\* mutant of handle_key: every other key moves the selection too
handle_key_default_next(a, code) ==
    CASE code = "q"             -> [app |-> a, quit |-> TRUE]
      [] code \in {"k", "Up"}   -> [app |-> select_prev(a), quit |-> FALSE]
      [] code = "r"             -> [app |-> reset_selection(a), quit |-> FALSE]
      [] OTHER                  -> [app |-> select_next(a), quit |-> FALSE]

\* handle_key where it does not panic: the App after the key and whether
\* the loop is to stop
handle_key(a, code) ==
    CASE code = "q"             -> [app |-> a, quit |-> TRUE]
      [] code \in {"j", "Down"} -> [app |-> select_next(a), quit |-> FALSE]
      [] code \in {"k", "Up"}   -> [app |-> select_prev(a), quit |-> FALSE]
      [] code = "r"             -> [app |-> reset_selection(a), quit |-> FALSE]
      [] OTHER                  -> [app |-> a, quit |-> FALSE]

\* TICK_RATE.checked_sub(last_tick.elapsed()).unwrap_or(Duration::from_secs(0))
PollTimeout(elapsed) == IF TICK_RATE >= elapsed THEN TICK_RATE - elapsed ELSE 0

\* when an event may arrive while event::poll(timeout) blocks: at once,
\* after 150 ms, or just as the timeout ends
Arrivals(timeout) == {d \in {0, 15, timeout} : d <= timeout}

Init ==
    /\ \E noises \in NoiseVectors(Len(SEEDS)) : app = new(Len(SEEDS), noises)
    /\ pc = "enable_raw_mode"
    /\ term = TermInit
    /\ result = "none"
    /\ last_tick = 0
    /\ last_price_update = 0
    /\ last_banner_tick = 0
    /\ waited = 0
    /\ op = "new"
    /\ updates = 0
    /\ pushed = Histories(app)

AppUnchanged == UNCHANGED <<app, updates, pushed>>

TimersUnchanged == UNCHANGED <<last_tick, last_price_update, last_banner_tick, waited>>

\* a `?` of main that returns the error at once
MainReturnsErr ==
    /\ pc' = "returned"
    /\ result' = "Err"

\* enable_raw_mode()?
EnableRawMode ==
    /\ pc = "enable_raw_mode"
    /\ op' = "enable_raw_mode"
    /\ \/ /\ term' = [term EXCEPT !.raw = TRUE]
          /\ pc' = "enter_alternate_screen"
          /\ UNCHANGED result
       \/ /\ MainReturnsErr
          /\ UNCHANGED term
    /\ AppUnchanged /\ TimersUnchanged

\* execute!(stdout, EnterAlternateScreen)?
EnterAlternateScreen ==
    /\ pc = "enter_alternate_screen"
    /\ op' = "enter_alternate_screen"
    /\ \/ /\ term' = [term EXCEPT !.alt = TRUE]
          /\ pc' = "terminal_new"
          /\ UNCHANGED result
       \/ /\ MainReturnsErr
          /\ UNCHANGED term
    /\ AppUnchanged /\ TimersUnchanged

\* Terminal::new(backend)?, then run_app up to its loop
TerminalNew ==
    /\ pc = "terminal_new"
    /\ op' = "terminal_new"
    /\ \/ /\ pc' = "draw"
          /\ UNCHANGED result
       \/ MainReturnsErr
    /\ UNCHANGED term
    /\ AppUnchanged /\ TimersUnchanged

\* a `?` of run_app: the error becomes main's `result`, main goes on
RunAppReturns(r) ==
    /\ pc' = "disable_raw_mode"
    /\ result' = r

\* the three Instants after time d has passed
Pass(d) ==
    /\ last_tick' = last_tick + d
    /\ last_price_update' = last_price_update + d
    /\ last_banner_tick' = last_banner_tick + d

\* how long the work of one iteration outside event::poll may take: no
\* measurable time, or a whole tick interval of 250 ms, after which
\* last_tick.elapsed() has reached or passed TICK_RATE and the poll timeout
\* is zero; it is counted in the iteration's draw
DrawTimes == {0, 25}

\* terminal.draw(|f| ui(f, &app))?
LoopDraw ==
    /\ pc = "draw"
    /\ op' = "draw"
    /\ \/ \E d \in DrawTimes :
            /\ Pass(d)
            /\ pc' = "poll"
            /\ UNCHANGED result
       \/ /\ RunAppReturns("Err")
          /\ UNCHANGED <<last_tick, last_price_update, last_banner_tick>>
    /\ UNCHANGED <<term, waited>>
    /\ AppUnchanged

\* the three Instants after event::poll has blocked for time d
Elapse(d) ==
    /\ Pass(d)
    /\ waited' = d

\* event::poll(timeout)?
LoopPoll ==
    /\ pc = "poll"
    /\ op' = "poll"
    /\ LET timeout == PollTimeout(last_tick)
       IN  \/ \E d \in Arrivals(timeout) :       \* Ok(true): an event arrived
                /\ Elapse(d)
                /\ pc' = "read"
                /\ UNCHANGED result
           \/ /\ Elapse(timeout)                 \* Ok(false): timed out
              /\ pc' = "tick"
              /\ UNCHANGED result
           \/ /\ RunAppReturns("Err")
              /\ TimersUnchanged
    /\ UNCHANGED term
    /\ AppUnchanged

\* event::read()? and the dispatch of a key press to handle_key
LoopRead ==
    /\ pc = "read"
    /\ \/ \E ev \in Events :
            /\ op' = EventLabel(ev)
            /\ IF ev.type = "Key" /\ ev.kind = "Press"
               THEN \E build \in Builds :
                      IF handle_key_panics(app, ev.code, build)
                      THEN Panic /\ UNCHANGED app
                      ELSE LET h == handle_key(app, ev.code)
                           IN  /\ app' = h.app
                               /\ IF h.quit
                                  THEN RunAppReturns("Ok")
                                  ELSE pc' = "tick" /\ UNCHANGED result
               ELSE /\ pc' = "tick"
                    /\ UNCHANGED <<app, result>>
       \/ /\ RunAppReturns("Err")
          /\ op' = "read"
          /\ UNCHANGED app
    /\ UNCHANGED <<term, updates, pushed>>
    /\ TimersUnchanged

\* if last_tick.elapsed() >= TICK_RATE { last_tick = Instant::now(); }
LoopTick ==
    /\ pc = "tick"
    /\ op' = "tick"
    /\ last_tick' = IF last_tick >= TICK_RATE THEN 0 ELSE last_tick
    /\ pc' = "price"
    /\ UNCHANGED <<term, result, last_price_update, last_banner_tick, waited>>
    /\ AppUnchanged

\* mutant of LoopPrice: the prices are updated in every iteration
LoopPrice_ungated ==
    /\ pc = "price"
    /\ updates < MaxLoopUpdates
    /\ \E deltas \in Vectors(Len(app.stocks), Deltas) :
       \E vols \in Vectors(Len(app.stocks), VolumeIncs) :
          app' = update_prices(app, deltas, vols)
    /\ op' = "update_prices"
    /\ updates' = updates + 1
    /\ pushed' = [i \in 1..Len(pushed) |-> Append(pushed[i], app'.stocks[i].price)]
    /\ last_price_update' = 0
    /\ pc' = "banner"
    /\ UNCHANGED <<term, result, last_tick, last_banner_tick, waited>>

\* if last_price_update.elapsed() >= PRICE_UPDATE_RATE { .. }
LoopPrice ==
    /\ pc = "price"
    /\ IF last_price_update >= PRICE_UPDATE_RATE
       THEN /\ updates < MaxLoopUpdates
            /\ \E deltas \in Vectors(Len(app.stocks), Deltas) :
               \E vols \in Vectors(Len(app.stocks), VolumeIncs) :
                  app' = update_prices(app, deltas, vols)
            /\ op' = "update_prices"
            /\ updates' = updates + 1
            /\ pushed' = [i \in 1..Len(pushed) |-> Append(pushed[i], app'.stocks[i].price)]
            /\ last_price_update' = 0
       ELSE /\ op' = "price"
            /\ UNCHANGED <<app, updates, pushed, last_price_update>>
    /\ pc' = "banner"
    /\ UNCHANGED <<term, result, last_tick, last_banner_tick, waited>>

\* if last_banner_tick.elapsed() >= BANNER_TICK_RATE { .. }
LoopBanner ==
    /\ pc = "banner"
    /\ IF last_banner_tick >= BANNER_TICK_RATE
       THEN /\ app' = advance_banner(app)
            /\ op' = "advance_banner"
            /\ last_banner_tick' = 0
       ELSE /\ op' = "banner"
            /\ UNCHANGED <<app, last_banner_tick>>
    /\ pc' = "draw"
    /\ UNCHANGED <<term, result, last_tick, last_price_update, waited, updates, pushed>>

\* disable_raw_mode()?
DisableRawMode ==
    /\ pc = "disable_raw_mode"
    /\ op' = "disable_raw_mode"
    /\ \/ /\ term' = [term EXCEPT !.raw = FALSE, !.disable_attempted = TRUE]
          /\ pc' = "leave_alternate_screen"
          /\ UNCHANGED result
       \/ /\ term' = [term EXCEPT !.disable_attempted = TRUE]
          /\ MainReturnsErr
    /\ AppUnchanged /\ TimersUnchanged

\* execute!(terminal.backend_mut(), LeaveAlternateScreen)?
LeaveAlternateScreen ==
    /\ pc = "leave_alternate_screen"
    /\ op' = "leave_alternate_screen"
    /\ \/ /\ term' = [term EXCEPT !.alt = FALSE, !.leave_attempted = TRUE]
          /\ pc' = "show_cursor"
          /\ UNCHANGED result
       \/ /\ term' = [term EXCEPT !.leave_attempted = TRUE]
          /\ MainReturnsErr
    /\ AppUnchanged /\ TimersUnchanged

\* terminal.show_cursor()?, then main returns `result`
ShowCursor ==
    /\ pc = "show_cursor"
    /\ op' = "show_cursor"
    /\ pc' = "returned"
    /\ \/ UNCHANGED result
       \/ result' = "Err"
    /\ UNCHANGED term
    /\ AppUnchanged /\ TimersUnchanged

Next ==
    \/ EnableRawMode \/ EnterAlternateScreen \/ TerminalNew
    \/ LoopDraw \/ LoopPoll \/ LoopRead \/ LoopTick \/ LoopPrice \/ LoopBanner
    \/ DisableRawMode \/ LeaveAlternateScreen \/ ShowCursor

Spec == Init /\ [][Next]_vars

(***************************************************************************)
(* Claims                                                                  *)
(***************************************************************************)
\* &self.stocks[self.selected] is defined when the index is in the Vec
current(a) == a.stocks[a.selected + 1]

CurrentInBounds(a) == a.selected + 1 \in DOMAIN a.stocks

\* C1: whatever selection calls were made on a watchlist of count
\* instruments, the selected index is in [0, count-1], and 0 when the
\* watchlist is empty, so current() indexes inside the watchlist.
C1_SelectionInRange ==
    IF Len(app.stocks) = 0
    THEN app.selected = 0
    ELSE /\ app.selected \in 0..(Len(app.stocks) - 1)
         /\ CurrentInBounds(app)

\* select_next has acted at the last instrument of the longest watchlist
C1_Witness ==
    /\ op = "select_next"
    /\ Len(app.stocks) = MaxCount
    /\ app.selected = MaxCount - 1

\* C2: when main has returned, the terminal is not left in raw mode
\* without disable_raw_mode having been attempted, nor on the alternate
\* screen without LeaveAlternateScreen having been attempted.
C2_TerminalRestored ==
    pc = "returned" =>
        /\ term.raw => term.disable_attempted
        /\ term.alt => term.leave_attempted

\* C3: every instrument's price is at least the floor 1.0 and lies within
\* its day range, at seeding and after every update_prices call.
C3_PriceBounded ==
    \A i \in 1..Len(app.stocks) :
        LET st == app.stocks[i]
        IN  /\ st.price >= PRICE_FLOOR
            /\ st.price > 0
            /\ st.day_range_low <= st.price
            /\ st.price <= st.day_range_high

\* the floor has held one price and another price has set a new day high
C3_Witness ==
    /\ updates >= 2
    /\ \E i \in 1..Len(app.stocks) :
          /\ app.stocks[i].price = PRICE_FLOOR
          /\ app.stocks[i].day_range_low = PRICE_FLOOR
          /\ app.stocks[i].day_range_high > PRICE_FLOOR
    /\ \E j \in 1..Len(app.stocks) :
          /\ app.stocks[j].price > PRICE_FLOOR
          /\ app.stocks[j].price < app.stocks[j].day_range_high

\* the last n elements of a sequence, oldest first
LastN(q, n) == SubSeq(q, Len(q) - n + 1, Len(q))

\* C4: every history has at most HISTORY_LEN entries, and after more than
\* HISTORY_LEN update_prices calls it is exactly the HISTORY_LEN prices
\* pushed last, oldest first.
C4_HistoryFifo ==
    \A i \in 1..Len(app.stocks) :
        /\ Len(app.stocks[i].history) <= HISTORY_LEN
        /\ updates > HISTORY_LEN =>
              app.stocks[i].history = LastN(pushed[i], HISTORY_LEN)

\* more than HISTORY_LEN updates were made, with prices that differ
C4_Witness ==
    /\ updates > HISTORY_LEN
    /\ \E i \in 1..Len(app.stocks) :
          app.stocks[i].history[1] # app.stocks[i].history[HISTORY_LEN]

\* C5: change and change_pct are those of the current price (change is
\* price - prev_close taken exactly and rounded down to the unit), and
\* prev_close is positive and is the value given at seeding.
C5_DerivedFresh ==
    \A i \in 1..Len(app.stocks) :
        LET st == app.stocks[i]
            sd == seed(st.symbol, st.name, SimSeeds[i].price, ZeroNoise)
            exact == (1000 * (st.price - st.prev_close)) - st.prev_close_frac
        IN  /\ 1000 * st.change <= exact
            /\ exact < 1000 * (st.change + 1)
            /\ st.change_pct = percent_of(st.price, st.prev_close, st.prev_close_frac)
            /\ st.prev_close > 0
            /\ st.prev_close = sd.prev_close
            /\ st.prev_close_frac = sd.prev_close_frac

\* after an update one instrument is below and one above its previous close
C5_Witness ==
    /\ updates >= 1
    /\ \E i, j \in 1..Len(app.stocks) :
          /\ app.stocks[i].change < 0
          /\ app.stocks[j].change > 0
          /\ app.stocks[j].price # SimSeeds[j].price

\* C6: event::poll never blocks for longer than the fastest tick interval,
\* so the banner timer is looked at again within 120 ms of the last look.
C6_PollWithinFastestTick ==
    pc = "banner" => waited <= BANNER_TICK_RATE

\* the banner text at a given offset
TextAt(a, offset) == banner_text([a EXCEPT !.banner_offset = offset])

\* C7: for a fixed banner source the banner text has the same length at
\* every offset.
C7_LengthConstant ==
    Len(banner_text(app)) = Len(TextAt(app, 0))

\* the offset has been advanced past the length of the joined text
C7_Witness ==
    /\ op = "advance_banner"
    /\ app.banner # <<>>
    /\ Len(Joined(app.banner)) > 1
    /\ app.banner_offset > Len(Joined(app.banner))

RECURSIVE AdvanceTimes(_, _)
\* n consecutive advance_banner calls
AdvanceTimes(a, n) == IF n = 0 THEN a ELSE AdvanceTimes(advance_banner(a), n - 1)

\* C8 as claimed: from every reachable offset of a non-empty banner
\* source, length-of-the-joined-text advances give the same banner text.
C8_Original ==
    app.banner # <<>> =>
        banner_text(AdvanceTimes(app, Len(Joined(app.banner)))) = banner_text(app)

\* C8 as amended: the same, from every offset at which the advances do not
\* run into the saturation of the counter (offset + length <= usize::MAX).
C8_PeriodicBelowMax ==
    (/\ app.banner # <<>>
     /\ app.banner_offset + Len(Joined(app.banner)) <= USIZE_MAX) =>
        banner_text(AdvanceTimes(app, Len(Joined(app.banner)))) = banner_text(app)

\* a rotated text, with room for a full period below the maximum
C8_Witness ==
    /\ op = "advance_banner"
    /\ app.banner # <<>>
    /\ app.banner_offset > 0
    /\ app.banner_offset + Len(Joined(app.banner)) <= USIZE_MAX
    /\ banner_text(app) # TextAt(app, 0)
    /\ AdvanceTimes(app, Len(Joined(app.banner))).banner_offset
          = app.banner_offset + Len(Joined(app.banner))

\* character i of the text is character (offset + i) mod length of joined
WindowOf(text, joined, offset) ==
    \A i \in 0..(Len(joined) - 1) :
        CharAt(text, i) = CharAt(joined, (offset + i) % Len(joined))

\* C9 as claimed: the sentinel for an empty source, else the circular
\* window of the joined text at the offset, as long as the joined text.
C9_Original ==
    LET joined == Joined(app.banner)
        text   == banner_text(app)
    IN  IF app.banner = <<>>
        THEN text = "NO HEADLINES"
        ELSE /\ Len(text) = Len(joined)
             /\ WindowOf(text, joined, app.banner_offset)

\* C9 as amended: the sentinel for an empty source, else the circular
\* window of the joined text at the offset followed by one space, so one
\* character longer than the joined text.
C9_WindowPlusSpace ==
    LET joined == Joined(app.banner)
        text   == banner_text(app)
    IN  IF app.banner = <<>>
        THEN text = "NO HEADLINES"
        ELSE /\ Len(text) = Len(joined) + 1
             /\ WindowOf(text, joined, app.banner_offset)
             /\ CharAt(text, Len(joined)) = " "

\* a window that starts inside the text after the offset has wrapped
C9_Witness ==
    /\ op = "advance_banner"
    /\ app.banner # <<>>
    /\ app.banner_offset > Len(Joined(app.banner))
    /\ app.banner_offset % Len(Joined(app.banner)) # 0
    /\ banner_text(app) # TextAt(app, 0)

\* C10: advance_banner adds exactly 1 to the offset of a non-empty source
\* below the maximum, leaves it at the maximum, leaves it alone for an
\* empty source; the offset never decreases.
C10_AdvanceSaturates ==
    [][ /\ op' = "advance_banner" =>
             app'.banner_offset =
                 IF app.banner = <<>> THEN app.banner_offset
                 ELSE IF app.banner_offset < USIZE_MAX THEN app.banner_offset + 1
                 ELSE USIZE_MAX
        /\ app'.banner_offset >= app.banner_offset ]_vars

\* the offset of a non-empty source has reached the maximum
C10_Witness ==
    /\ op = "advance_banner"
    /\ app.banner # <<>>
    /\ app.banner_offset = USIZE_MAX

\* the positions of main after run_app has returned
TeardownPcs == {"disable_raw_mode", "leave_alternate_screen", "show_cursor", "returned"}

\* the positions inside the loop of run_app
LoopPcs == {"draw", "poll", "read", "tick", "price", "banner"}

KeyPress(code) == EventLabel([type |-> "Key", code |-> code, kind |-> "Press"])

\* C11: a press of 'q' ends the loop in the iteration that reads it, with
\* Ok and with the App as it was; the loop is left only by that or with an
\* error; once it is left there is no draw, update, advance or selection
\* change any more.
C11_QuitExits ==
    [][ /\ (pc = "read" /\ op' = KeyPress("q")) =>
              /\ pc' = "disable_raw_mode"
              /\ result' = "Ok"
              /\ app' = app
              /\ updates' = updates
        /\ (pc \in LoopPcs /\ pc' \notin LoopPcs) =>
              \/ op' = KeyPress("q") /\ result' = "Ok"
              \/ result' = "Err"
        /\ pc \in TeardownPcs =>
              /\ pc' \in TeardownPcs
              /\ app' = app
              /\ updates' = updates
              /\ op' \notin {"draw", "update_prices", "advance_banner"} ]_vars

\* 'q' was pressed after the selection, the prices and the banner moved
C11_Witness ==
    /\ pc = "disable_raw_mode"
    /\ op = KeyPress("q")
    /\ result = "Ok"
    /\ app.selected > 0
    /\ app.banner_offset > 0
    /\ updates >= 1

\* C12: of all events read, only a press of q, j/Down, k/Up or r acts
\* (quit, select_next, select_prev, reset_selection); every other event
\* leaves the App as it is and the loop running.
C12_OnlyBoundKeys ==
    [][ \A ev \in Events :
          (pc = "read" /\ op' = EventLabel(ev)) =>
             IF ev.type = "Key" /\ ev.kind = "Press" /\ ev.code = "q"
             THEN app' = app /\ pc' = "disable_raw_mode"
             ELSE /\ pc' = "tick"
                  /\ result' = result
                  /\ app' =
                       IF ev.type = "Key" /\ ev.kind = "Press"
                       THEN CASE ev.code \in {"j", "Down"} -> select_next(app)
                              [] ev.code \in {"k", "Up"}   -> select_prev(app)
                              [] ev.code = "r"             -> reset_selection(app)
                              [] OTHER                     -> app
                       ELSE app ]_vars

\* a release of 'j' was read with the selection in the middle of the list
C12_Witness ==
    /\ pc = "tick"
    /\ op = EventLabel([type |-> "Key", code |-> "j", kind |-> "Release"])
    /\ app.selected > 0
    /\ app.selected < Len(app.stocks) - 1

\* C13: on a watchlist of count >= 1 instruments with the index in range,
\* select_next adds 1 below count-1 and does nothing at count-1,
\* select_prev subtracts 1 above 0 and does nothing at 0, reset_selection
\* gives 0.
C13_SelectionSteps ==
    [][ Len(app.stocks) >= 1 /\ app.selected \in 0..(Len(app.stocks) - 1) =>
          /\ op' = "select_next" =>
                app'.selected = IF app.selected < Len(app.stocks) - 1
                                THEN app.selected + 1 ELSE app.selected
          /\ op' = "select_prev" =>
                app'.selected = IF app.selected > 0
                                THEN app.selected - 1 ELSE app.selected
          /\ op' = "reset_selection" => app'.selected = 0 ]_vars

\* select_prev has acted and the first of the longest watchlist is selected
C13_Witness ==
    /\ op = "select_prev"
    /\ Len(app.stocks) = MaxCount
    /\ app.selected = 0

\* C14: the ratio given to the day-range gauge is in [0,1]; it is 0 for a
\* day range of no width, and (price - low) / (high - low) for a price
\* inside a day range of positive width.
C14_GaugeInUnit ==
    \A i \in 1..Len(app.stocks) :
        LET st    == app.stocks[i]
            width == st.day_range_high - st.day_range_low
            g     == gauge_ratio(st)
        IN  /\ g >= 0
            /\ g <= RATIO_ONE
            /\ width <= 0 => g = 0
            /\ (width > 0 /\ st.day_range_low <= st.price /\ st.price <= st.day_range_high) =>
                   g = ((st.price - st.day_range_low) * RATIO_ONE) \div width
            /\ (width > 0 /\ st.price < st.day_range_low) => g = 0
            /\ (width > 0 /\ st.price > st.day_range_high) => g = RATIO_ONE

\* after an update the selected instrument's day range has no width
C14_Witness ==
    /\ updates >= 1
    /\ CurrentInBounds(app)
    /\ current(app).day_range_high = current(app).day_range_low
    /\ gauge_ratio(current(app)) = 0

\* C15: normalize_history divides by a positive span only; it gives <<0>>
\* for an empty history, else one sample in 1..101 per value, 1 for the
\* least value, 101 for the greatest when the span is not degenerate (above
\* 0.0001), and the same sample throughout when the values are equal.
C15_Normalized ==
    \A i \in 1..Len(app.stocks) :
        LET h == app.stocks[i].history
        IN  IF h = <<>>
            THEN normalize_history(h) = {<<0>>}
            ELSE /\ normalize_history(h) # {}
                 /\ \A span \in span_outcomes(FoldMin(Head(h), h), FoldMax(Head(h), h)) :
                       span > 0
                 /\ \A n \in normalize_history(h) :
                       /\ Len(n) = Len(h)
                       /\ \A k \in 1..Len(h) :
                             /\ n[k] \in 1..101
                             /\ (\A m \in 1..Len(h) : h[k] <= h[m]) => n[k] = 1
                             /\ ((\A m \in 1..Len(h) : h[k] >= h[m])
                                   /\ (\E m \in 1..Len(h) : h[k] - h[m] > EPSILON))
                                   => n[k] = 101
                             /\ (\A m \in 1..Len(h) : h[m] = h[1]) => n[k] = n[1]

\* after an update the history is full and all its values are equal
C15_Witness ==
    /\ updates >= 1
    /\ \E i \in 1..Len(app.stocks) :
          LET h == app.stocks[i].history
          IN  /\ Len(h) = HISTORY_LEN
              /\ HISTORY_LEN >= 2
              /\ \A m \in 1..Len(h) : h[m] = h[1]
              /\ normalize_history(h) = {[k \in 1..Len(h) |-> 1]}

\* C16 is not settled in this model: the panel rectangles are computed by
\* Layout::split of the ratatui library, which is no part of the source.

\* the labels of the key events, of every kind
KeyEventLabels == {EventLabel(ev) : ev \in {e \in Events : e.type = "Key"}}

\* an engine's interval has elapsed
EngineDue ==
    \/ last_price_update >= PRICE_UPDATE_RATE
    \/ last_banner_tick >= BANNER_TICK_RATE

\* One step of the loop keeps the engines gated: update_prices runs only in
\* the price check of an iteration and only when 900 ms have passed since
\* it last ran (or since the loop started), advance_banner likewise in the
\* banner check with 120 ms; each check is passed once per iteration; the
\* two Instants are retaken only then; a check that is reached and due
\* runs its engine; reading an event and the tick check change neither the
\* engines' state nor the Instants.
EnginesGatedStep ==
    /\ op' = "update_prices" =>
          /\ pc = "price" /\ pc' = "banner"
          /\ last_price_update >= PRICE_UPDATE_RATE
          /\ last_price_update' = 0
          /\ updates' = updates + 1
    /\ op' = "advance_banner" =>
          /\ pc = "banner" /\ pc' = "draw"
          /\ last_banner_tick >= BANNER_TICK_RATE
          /\ last_banner_tick' = 0
    /\ (pc = "price" /\ last_price_update >= PRICE_UPDATE_RATE) => op' = "update_prices"
    /\ (pc = "banner" /\ last_banner_tick >= BANNER_TICK_RATE) => op' = "advance_banner"
    /\ last_price_update' < last_price_update => op' = "update_prices"
    /\ last_banner_tick' < last_banner_tick => op' = "advance_banner"
    /\ (last_price_update' > last_price_update \/ last_banner_tick' > last_banner_tick)
          => pc \in {"draw", "poll"}
    /\ updates' # updates => op' = "update_prices"
    /\ app'.stocks # app.stocks => op' = "update_prices"
    /\ app'.banner_offset # app.banner_offset => op' = "advance_banner"
    /\ pc \in {"read", "tick"} =>
          /\ updates' = updates
          /\ app'.stocks = app.stocks
          /\ app'.banner_offset = app.banner_offset
          /\ last_price_update' = last_price_update
          /\ last_banner_tick' = last_banner_tick
    /\ pc = "tick" => pc' = "price"

\* C17 as claimed: the engines are gated, and no key event suppresses an
\* invocation: an iteration that reads a key event while an engine is due
\* goes on to the checks, where the due engine runs.
C17_Original ==
    [][ /\ EnginesGatedStep
        /\ (pc = "read" /\ op' \in KeyEventLabels /\ EngineDue) => pc' = "tick" ]_vars

\* C17 as amended: the engines are gated, and no key event but a press of
\* 'q' suppresses an invocation; a press of 'q' ends the loop before the
\* checks of its iteration, so that an engine due then is not invoked.
C17_GatedUnlessQuit ==
    [][ /\ EnginesGatedStep
        /\ (pc = "read" /\ op' \in (KeyEventLabels \ {KeyPress("q")}) /\ EngineDue)
              => pc' = "tick"
        /\ (pc = "read" /\ op' = KeyPress("q")) =>
              /\ pc' = "disable_raw_mode"
              /\ updates' = updates
              /\ app' = app
        /\ pc \in TeardownPcs =>
              /\ pc' \in TeardownPcs
              /\ updates' = updates
              /\ app' = app ]_vars

\* update_prices has run for the second time, 900 ms after the first, in a
\* run in which keys had moved the selection
C17_Witness ==
    /\ op = "update_prices"
    /\ pc = "banner"
    /\ updates >= 2
    /\ app.selected > 0
    /\ app.banner_offset > 0
    /\ last_price_update = 0
    /\ last_banner_tick >= BANNER_TICK_RATE

\* C18: one update_prices call advances every instrument exactly once,
\* each from its own previous state and its own drawn values, and no step
\* changes the number, the order, the symbols or the names of the
\* instruments.
C18_EachOnceIndependently ==
    [][ /\ Len(app'.stocks) = Len(app.stocks)
        /\ \A i \in 1..Len(app.stocks) :
              /\ app'.stocks[i].symbol = app.stocks[i].symbol
              /\ app'.stocks[i].name = app.stocks[i].name
        /\ op' = "update_prices" =>
              \A i \in 1..Len(app.stocks) :
                 \E d \in Deltas, v \in VolumeIncs :
                    app'.stocks[i] = advance(app.stocks[i], d, v) ]_vars

\* one update has moved two instruments in opposite directions
C18_Witness ==
    /\ op = "update_prices"
    /\ updates = 1
    /\ Len(app.stocks) >= 2
    /\ app.stocks[1].price > SimSeeds[1].price
    /\ app.stocks[2].price < SimSeeds[2].price
    /\ app.stocks[1].volume > SEED_VOLUME
    /\ app.stocks[2].volume > SEED_VOLUME

\* C19: a navigation key changes nothing of the App but the selected
\* index, advance_banner nothing but the banner offset, update_prices
\* nothing but the instruments; the sidebar index, the headlines, the
\* banner lines, the sidebar entries and the user, credential and session
\* labels change in no step.
C19_Frames ==
    [][ /\ app'.explorer_selected = app.explorer_selected
        /\ app'.headlines = app.headlines
        /\ app'.banner = app.banner
        /\ app'.explorer_items = app.explorer_items
        /\ app'.user = app.user
        /\ app'.api_key = app.api_key
        /\ app'.session = app.session
        /\ \A code \in {"j", "Down", "k", "Up", "r"} :
              op' = KeyPress(code) => [app' EXCEPT !.selected = app.selected] = app
        /\ op' = "advance_banner" =>
              [app' EXCEPT !.banner_offset = app.banner_offset] = app
        /\ op' = "update_prices" =>
              [app' EXCEPT !.stocks = app.stocks] = app ]_vars

\* 'r' was pressed after the banner and the prices had moved
C19_Witness ==
    /\ op = KeyPress("r")
    /\ app.selected = 0
    /\ app.banner_offset > 0
    /\ updates >= 1

\* C20: once update_prices has run, every history has exactly HISTORY_LEN
\* entries and its last entry is the instrument's price.
C20_NewestIsPrice ==
    updates >= 1 =>
        \A i \in 1..Len(app.stocks) :
            LET h == app.stocks[i].history
            IN  /\ Len(h) = HISTORY_LEN
                /\ h[Len(h)] = app.stocks[i].price

\* an update has held a price at the floor
C20_Witness ==
    /\ updates >= 1
    /\ \E i \in 1..Len(app.stocks) :
          /\ app.stocks[i].price = PRICE_FLOOR
          /\ app.stocks[i].history[HISTORY_LEN] = PRICE_FLOOR
          /\ pushed[i][Len(pushed[i]) - 1] - 80 < PRICE_FLOOR

====
